---- MODULE Spec2Model ----
(***************************************************************************)
(* A model of the PromptQL thread exporter (src/main.py).                  *)
(*                                                                         *)
(* Python strings are sequences of one-character strings; Python's None   *)
(* is the token None below, a sequence no real string is equal to (its    *)
(* only element is longer than one character).  The sentinels "__QUIT__"  *)
(* and "__ALL__" are tokens of the same kind.                              *)
(*                                                                         *)
(* Three specifications:                                                   *)
(*   Spec         one run of main(), with SIGINT possible at every point;  *)
(*   SpecFetch    fetch_thread applied to every pair of short strings;     *)
(*   SpecResolve  get_project_key_from_config applied to every small       *)
(*                config and pair of selectors.                            *)
(***************************************************************************)
EXTENDS Integers, Sequences, FiniteSets, TLC

VARIABLES
    pc,               \* position of main(): start, load, resolve, ...
    exit_status,      \* -1 while running, else the process's exit status
    exit_via,         \* running | return | sys_exit | raise
    exit_msg,         \* which exit of the code ended the run
    logged,           \* logging.error("Unexpected error ...") was called
    user_cancel,      \* the operator's cancellation: none, quit, cancel, ...
    config_file,      \* ~/.ddn/config.yaml: [exists, valid, entries]
    args_api_key,     \* --api-key
    env_api_key,      \* os.environ.get("API_KEY")
    config,           \* load_config's result: the promptql_secret_keys entries
    lookup,           \* the selector flags and the result of the config lookup
    consulted,        \* credential sources read so far, in order
    api_key,          \* main's api_key
    project_key,      \* main's project_key
    project_prompts,  \* times the project prompt was shown
    threads,          \* the fetched thread list
    select_ids,       \* main's select_ids
    selected_ids,     \* select_threads' last checkbox answer
    thread_prompts,   \* times the thread prompt was shown
    warnings,         \* "You must select at least one thread" warnings printed
    selected_threads, \* select_threads' result
    dir_created,      \* os.makedirs(output_dir) was called
    idx,              \* position of the export loop in selected_threads
    now,              \* the wall clock, in seconds
    net,              \* the GET requests issued, in order, with the response
    fetches,          \* the calls of fetch_thread: [idx, response, error]
    saved,            \* the files written, in order: [idx, filename]
    files,            \* the output directory: a set of <<filename, content>>
    f_thread_id,      \* SpecFetch: fetch_thread's thread_id
    f_api_key,        \* SpecFetch: fetch_thread's api_key
    f_result,         \* SpecFetch: what the call did
    r_config,         \* SpecResolve: the config's entries
    r_project_id,     \* SpecResolve: project_id
    r_project_name,   \* SpecResolve: project_name
    r_result          \* SpecResolve: the pair returned

mainVars == <<pc, exit_status, exit_via, exit_msg, logged, user_cancel,
              config_file,
              args_api_key, env_api_key, config, lookup, consulted, api_key,
              project_key, project_prompts, threads, select_ids, selected_ids,
              thread_prompts, warnings, selected_threads, dir_created, idx,
              now, net, fetches, saved, files>>
fetchVars == <<f_thread_id, f_api_key, f_result>>
resolveVars == <<r_config, r_project_id, r_project_name, r_result>>
pureVars == <<fetchVars, resolveVars>>
vars == <<mainVars, pureVars>>

---------------------------------------------------------------------------
(* Bounds of the model. *)

\* Longest thread list the server returns.
MaxThreads == 2
\* Last second of the wall clock.
MaxTime == 1
\* Most empty-selection warnings in one run.
MaxWarnings == 2
\* Longest string handed to fetch_thread in SpecFetch.
MaxLen == 2
\* Longest project identifier or selector in SpecResolve.
MaxIdLen == 2
\* Most entries of a config in SpecResolve.
MaxEntries == 2

---------------------------------------------------------------------------
(* Python values. *)

None == <<"None">>
QUIT == <<"__QUIT__">>
ALL == <<"__ALL__">>
NoList == <<None>>

\* Python's truth value of an Optional[str].
Truthy(s) == s # None /\ s # <<>>

\* a or b
Or(a, b) == IF Truthy(a) THEN a ELSE b

Whitespace == {" ", "\t"}
Alnum == {"a", "b", "c", "z", "k", "e", "K", "L", "R", "1"}

RECURSIVE LStrip(_)
LStrip(s) ==
    IF s = <<>> THEN <<>>
    ELSE IF Head(s) \in Whitespace THEN LStrip(Tail(s))
    ELSE s

RECURSIVE RStrip(_)
RStrip(s) ==
    IF s = <<>> THEN <<>>
    ELSE IF s[Len(s)] \in Whitespace THEN RStrip(SubSeq(s, 1, Len(s) - 1))
    ELSE s

\* str.strip()
Strip(s) == RStrip(LStrip(s))

\* s.split(sep, 1)[0]: the part of s before its first sep, all of s without one.
RECURSIVE SplitFirst(_, _)
SplitFirst(s, sep) ==
    IF s = <<>> THEN <<>>
    ELSE IF Head(s) = sep THEN <<>>
    ELSE <<Head(s)>> \o SplitFirst(Tail(s), sep)

\* s.split(sep): the list of the parts of s between its seps.
RECURSIVE Split(_, _)
Split(s, sep) ==
    LET first == SplitFirst(s, sep)
    IN  IF Len(first) = Len(s) THEN <<first>>
        ELSE <<first>> \o Split(SubSeq(s, Len(first) + 2, Len(s)), sep)

\* Strings over an alphabet, up to a length.
RECURSIVE Strings(_, _)
Strings(alphabet, n) ==
    IF n = 0 THEN {<<>>}
    ELSE LET shorter == Strings(alphabet, n - 1)
         IN  shorter \cup {Append(s, c) : s \in shorter, c \in alphabet}

---------------------------------------------------------------------------
(* The Credential Resolver's lookup. *)

\* The test of one entry k against the two selectors (main.py lines 32-36).
EntryMatches(k, project_id, project_name) ==
    LET name == SplitFirst(k, ":")
        cleaned_project_name ==
            IF Truthy(project_name) THEN SplitFirst(project_name, ":") ELSE None
    IN  \/ (Truthy(project_id) /\ project_id = k)
        \/ (Truthy(cleaned_project_name) /\ cleaned_project_name = name)

\* projects is the config's promptql_secret_keys mapping, a sequence of
\* <<identifier, secret key>> in insertion order.
RECURSIVE get_project_key_from_config(_, _, _)
get_project_key_from_config(projects, project_id, project_name) ==
    IF projects = <<>> THEN <<None, None>>
    ELSE LET k == Head(projects)[1]
             v == Head(projects)[2]
         IN  IF EntryMatches(k, project_id, project_name) THEN <<v, k>>
             ELSE get_project_key_from_config(Tail(projects), project_id,
                                              project_name)

\* projects[selected]
SecretOf(projects, selected) ==
    LET i == CHOOSE i \in 1..Len(projects) : projects[i][1] = selected
    IN  projects[i][2]

\* The values of the project prompt's choices.
ProjectChoices(projects) ==
    {projects[i][1] : i \in 1..Len(projects)} \cup {QUIT}

---------------------------------------------------------------------------
(* The API Client.  A response is what the network did with a request: ok, *)
(* http_error (raise_for_status raised requests.HTTPError) or             *)
(* connection_error (requests.get itself raised).                          *)

Responses == {"ok", "http_error", "connection_error"}

Authorization(key) == <<"api-key", " ">> \o key
ListUrl == <<"{base_url}", "/playground/threads">>
ThreadUrl(thread_id) == <<"{base_url}", "/playground/threads", "/">> \o thread_id

\* A variant of ErrorOf without raise_for_status.
ErrorOfNoRaise(response) ==
    IF response = "connection_error" THEN "ConnectionError" ELSE "none"

\* The exception a response raises (lines 77-78, 87-88).
ErrorOf(response) ==
    CASE response = "ok" -> "none"
      [] response = "http_error" -> "HTTPError"
      [] response = "connection_error" -> "ConnectionError"

\* A variant of FetchThreadRejects that forgets to strip.
RejectsEmptyOnly(thread_id, key) == thread_id = <<>> \/ key = <<>>

\* The precondition of fetch_thread (main.py line 72).
FetchThreadRejects(thread_id, key) ==
    Strip(thread_id) = <<>> \/ Strip(key) = <<>>

\* requests.get(url, headers=headers), as the request log keeps it.
Get(url, key, response) ==
    [url |-> url, authorization |-> Authorization(key), api_key |-> key,
     response |-> response]

\* fetch_thread: the error raised ("none" on success), the GETs issued and
\* the record returned.  body is the record the server holds for the thread.
fetch_thread(thread_id, key, response, body) ==
    IF FetchThreadRejects(thread_id, key)
    THEN [error |-> "ValueError", gets |-> <<>>, data |-> None]
    ELSE [error |-> ErrorOf(response),
          gets |-> <<Get(ThreadUrl(thread_id), key, response)>>,
          data |-> IF response = "ok" THEN body ELSE None]

\* fetch_thread_list: as fetch_thread, with the list the server returns.
fetch_thread_list(key, response, body) ==
    [error |-> ErrorOf(response),
     gets |-> <<Get(ListUrl, key, response)>>,
     data |-> IF response = "ok" THEN body ELSE <<>>]

---------------------------------------------------------------------------
(* Thread selection and file names. *)

InList(x, list) == \E i \in 1..Len(list) : list[i] = x

KeepThread(t, ids) == InList(t.thread_id, ids)

\* A variant of SelectByIds that walks the ids, not the threads.
RECURSIVE SelectInFlagOrder(_, _)
SelectInFlagOrder(ts, ids) ==
    IF ids = <<>> THEN <<>>
    ELSE SelectSeq(ts, LAMBDA t : t.thread_id = Head(ids))
         \o SelectInFlagOrder(ts, Tail(ids))

\* [t for t in threads if t.get("thread_id") in select_ids]
SelectByIds(ts, ids) == SelectSeq(ts, LAMBDA t : KeepThread(t, ids))

\* [tid.strip() for tid in args.select.split(",")] if args.select else None
ParseSelect(select) ==
    IF Truthy(select)
    THEN LET parts == Split(select, ",")
         IN  [i \in 1..Len(parts) |-> Strip(parts[i])]
    ELSE NoList

\* The values of the thread prompt's choices.
ThreadChoices(ts) == {ALL, QUIT} \cup {ts[i].thread_id : i \in 1..Len(ts)}

\* The answer as a Python list, for the filter of line 130.
RECURSIVE SetToSeq(_)
SetToSeq(S) ==
    IF S = {} THEN <<>>
    ELSE LET x == CHOOSE x \in S : TRUE
         IN  <<x>> \o SetToSeq(S \ {x})

\* thread.get("title") or thread_id
TitleOf(t) == Or(t.title, t.thread_id)

SafeChar(c) == IF c \in Alnum \/ c \in {"-", "_"} THEN c ELSE "_"

\* "".join(c if c.isalnum() or c in "-_" else "_" for c in title)
SafeTitle(title) == [i \in 1..Len(title) |-> SafeChar(title[i])]

\* f"{safe_title}_{timestamp}.json"
FileName(t, timestamp) == <<SafeTitle(TitleOf(t)), timestamp>>

\* open(filepath, "w"): the file is created or replaced.
WriteFile(dir, name, data) ==
    {f \in dir : f[1] # name} \cup {<<name, data>>}

FileNames(dir) == {f[1] : f \in dir}

---------------------------------------------------------------------------
(* The inputs of a run of main(). *)

KeyFlags == {None, <<>>, <<" ">>, <<"k">>}
KeyEnvs == {None, <<"e">>}
SelectorIds == {None, <<"a", ":", "q">>}
SelectorNames == {None, <<"a">>, <<"z">>}
SelectArgs == {None, <<>>, <<"b", ",", " ", "a">>, <<"z">>}

ConfigEntries ==
    << <<(<<"a", ":", "p">>), <<"K">>>>,
       <<(<<"a", ":", "q">>), <<"L">>>>,
       <<(<<"b">>), <<>>>>,
       <<(<<>>), <<"e">>>> >>

ConfigFiles ==
    {[exists |-> FALSE, valid |-> FALSE, entries |-> <<>>],
     [exists |-> TRUE, valid |-> FALSE, entries |-> <<>>],
     [exists |-> TRUE, valid |-> TRUE, entries |-> ConfigEntries]}

ThreadA == [thread_id |-> <<"a">>, title |-> <<"R", ":">>]
ThreadB == [thread_id |-> <<"b">>, title |-> <<"R", "/">>]
ThreadBlank == [thread_id |-> <<" ">>, title |-> None]
ThreadCatalogue == {ThreadA, ThreadB, ThreadBlank}

RECURSIVE Lists(_, _)
Lists(S, n) ==
    IF n = 0 THEN {<<>>}
    ELSE LET shorter == Lists(S, n - 1)
         IN  shorter \cup {Append(l, x) : l \in shorter, x \in S}

ThreadLists == Lists(ThreadCatalogue, MaxThreads)

NoLookup ==
    [done |-> FALSE, project_id |-> None, project_name |-> None,
     result |-> <<None, None>>]

\* The record the server holds for a thread id.
BodyOf(thread_id) == <<"record of">> \o thread_id

---------------------------------------------------------------------------
(* main(). *)

exitVars == <<exit_status, exit_via, exit_msg, logged>>
inputVars == <<config_file, args_api_key, env_api_key>>
credVars == <<config, lookup, consulted, api_key, project_key, project_prompts>>
selVars == <<threads, select_ids, selected_ids, thread_prompts, warnings,
             selected_threads>>
expVars == <<dir_created, idx, now, net, fetches, saved, files>>

InitRun ==
    /\ pc = "start"
    /\ exit_status = -1
    /\ exit_via = "running"
    /\ exit_msg = "none"
    /\ logged = FALSE
    /\ user_cancel = "none"
    /\ config = <<>>
    /\ lookup = NoLookup
    /\ consulted = <<>>
    /\ api_key = None
    /\ project_key = None
    /\ project_prompts = 0
    /\ threads = <<>>
    /\ select_ids = NoList
    /\ selected_ids = {None}
    /\ thread_prompts = 0
    /\ warnings = 0
    /\ selected_threads = <<>>
    /\ dir_created = FALSE
    /\ idx = 0
    /\ now = 0
    /\ net = <<>>
    /\ fetches = <<>>
    /\ saved = <<>>
    /\ files = {}

InitMain ==
    /\ config_file \in ConfigFiles
    /\ args_api_key \in KeyFlags
    /\ env_api_key \in KeyEnvs
    /\ InitRun

\* The try block of main (lines 183-214).
InTry == pc \in {"list", "select", "thread_prompt", "mkdir", "export"}

\* A variant of IsException for a bare "except:", which catches SystemExit
\* too.
CatchesEverything(exc) == TRUE

\* The classes "except Exception" (line 212) catches: SystemExit and
\* KeyboardInterrupt derive from BaseException only.
IsException(exc) == exc \notin {"SystemExit", "KeyboardInterrupt"}

\* The process ends.
Exit(status, via, msg) ==
    /\ pc' = "done"
    /\ exit_status' = status
    /\ exit_via' = via
    /\ exit_msg' = msg

\* An exception raised at the current point of main: inside the try block an
\* Exception is logged and re-raised (lines 212-214); SystemExit ends the
\* process with its status; any other exception leaving main ends it with a
\* traceback and status 1.
Raise(exc, status, msg) ==
    IF InTry /\ IsException(exc)
    THEN Exit(1, "raise", "unexpected_error") /\ logged' = TRUE
    ELSE IF exc = "SystemExit"
    THEN Exit(status, "sys_exit", msg) /\ UNCHANGED logged
    ELSE Exit(1, "raise", msg) /\ UNCHANGED logged

\* sys.exit(status)
SysExit(status, msg) == Raise("SystemExit", status, msg)

\* A variant of ConfigMissing that skips the existence check.
NeverMissing(file) == FALSE

\* Line 159: not os.path.exists(config_path)
ConfigMissing(file) == ~file.exists

\* Lines 143-161: the config file must exist.
CheckConfig ==
    /\ pc = "start"
    /\ UNCHANGED pureVars
    /\ IF ConfigMissing(config_file)
       THEN SysExit(1, "config_not_found")
       ELSE pc' = "load" /\ UNCHANGED exitVars
    /\ UNCHANGED <<user_cancel, inputVars, credVars, selVars, expVars>>

\* Line 162: load_config.  A file that cannot be opened or parsed raises out
\* of main, outside its try block.
LoadConfig ==
    /\ pc = "load"
    /\ UNCHANGED pureVars
    /\ IF ~config_file.exists \/ ~config_file.valid
       THEN Raise("ConfigError", 1, "config_error") /\ UNCHANGED config
       ELSE /\ pc' = "resolve"
            /\ config' = config_file.entries
            /\ UNCHANGED exitVars
    /\ UNCHANGED <<user_cancel, inputVars, lookup, consulted, api_key,
                   project_key, project_prompts, selVars, expVars>>

\* The sources line 165 reads: "or" reads the environment only when the flag
\* is empty.
FlagEnvSources(flag) == IF Truthy(flag) THEN <<"flag">> ELSE <<"flag", "env">>

\* A variant of FlagOrEnv that prefers the environment to the flag.
EnvOrFlag(flag, env) == Or(env, flag)

\* Line 165: args.api_key or os.environ.get("API_KEY")
FlagOrEnv(flag, env) == Or(flag, env)

\* Lines 165-181, up to the project prompt.
ResolveCredential ==
    /\ pc = "resolve"
    /\ UNCHANGED pureVars
    /\ \E project_id \in SelectorIds, project_name \in SelectorNames :
         LET key == FlagOrEnv(args_api_key, env_api_key)
             sources == FlagEnvSources(args_api_key)
             found == get_project_key_from_config(config, project_id,
                                                  project_name)
         IN  IF Truthy(key)
             THEN /\ api_key' = key
                  /\ consulted' = sources
                  /\ pc' = "list"
                  /\ UNCHANGED <<exitVars, lookup, project_key>>
             ELSE IF Truthy(project_id) \/ Truthy(project_name)
             THEN /\ consulted' = Append(sources, "config")
                  /\ lookup' = [done |-> TRUE, project_id |-> project_id,
                                project_name |-> project_name,
                                result |-> found]
                  /\ api_key' = found[1]
                  /\ project_key' = found[2]
                  /\ IF ~Truthy(found[1])
                     THEN SysExit(1, "project_not_found")
                     ELSE pc' = "list" /\ UNCHANGED exitVars
             ELSE /\ consulted' = Append(sources, "prompt")
                  /\ api_key' = key
                  /\ pc' = "project_prompt"
                  /\ UNCHANGED <<exitVars, lookup, project_key>>
    /\ UNCHANGED <<user_cancel, inputVars, config, project_prompts, selVars,
                   expVars>>

\* prompt_for_project (lines 41-67) and lines 179-181: one showing of the
\* prompt.  The answer is a choice's value, None (cancel or escape) or a
\* KeyboardInterrupt.
ProjectPrompt ==
    /\ pc = "project_prompt"
    /\ UNCHANGED pureVars
    /\ project_prompts' = project_prompts + 1
    /\ \E selected \in ProjectChoices(config)
                         \cup {None, <<"KeyboardInterrupt">>} :
         IF selected = None
         THEN /\ SysExit(0, "cancelled")
              /\ user_cancel' = "cancel"
              /\ UNCHANGED <<api_key, project_key>>
         ELSE IF selected = <<"KeyboardInterrupt">>
         THEN /\ SysExit(0, "ctrl_c")
              /\ user_cancel' = "interrupt"
              /\ UNCHANGED <<api_key, project_key>>
         ELSE IF ~Truthy(selected)
         THEN /\ project_prompts < MaxWarnings
              /\ pc' = "project_prompt"
              /\ UNCHANGED <<exitVars, user_cancel, api_key, project_key>>
         ELSE IF selected = QUIT
         THEN /\ SysExit(0, "quit")
              /\ user_cancel' = "quit"
              /\ UNCHANGED <<api_key, project_key>>
         ELSE /\ api_key' = SecretOf(config, selected)
              /\ project_key' = selected
              /\ UNCHANGED user_cancel
              /\ IF ~Truthy(SecretOf(config, selected))
                 THEN SysExit(1, "no_api_key")
                 ELSE pc' = "list" /\ UNCHANGED exitVars
    /\ UNCHANGED <<inputVars, config, lookup, consulted, selVars, expVars>>

\* A variant of EmptyList that lets the empty list through.
NeverEmpty(ts) == FALSE

\* Line 190: not threads
EmptyList(ts) == ts = <<>>

\* Lines 184-193: the list fetch, its HTTP error and the empty list.
FetchThreadList ==
    /\ pc = "list"
    /\ UNCHANGED pureVars
    /\ \E response \in Responses, body \in ThreadLists :
         LET r == fetch_thread_list(api_key, response, body)
         IN  /\ net' = net \o r.gets
             /\ IF r.error = "HTTPError"
                THEN SysExit(1, "list_http_error") /\ UNCHANGED threads
                ELSE IF r.error # "none"
                THEN Raise(r.error, 1, "list_error") /\ UNCHANGED threads
                ELSE /\ threads' = r.data
                     /\ IF EmptyList(r.data)
                        THEN SysExit(1, "no_threads")
                        ELSE pc' = "select" /\ UNCHANGED exitVars
    /\ UNCHANGED <<user_cancel, inputVars, credVars, select_ids, selected_ids,
                   thread_prompts, warnings, selected_threads, dir_created,
                   idx, now, fetches, saved, files>>

\* Lines 194-196 and 95-97: --select is parsed and, when it names ids, decides
\* the selection without a prompt.
SelectThreads ==
    /\ pc = "select"
    /\ UNCHANGED pureVars
    /\ \E select \in SelectArgs :
         LET ids == ParseSelect(select)
         IN  /\ select_ids' = ids
             /\ IF ids # NoList /\ ids # <<>>
                THEN /\ selected_threads' = SelectByIds(threads, ids)
                     /\ pc' = "mkdir"
                ELSE /\ pc' = "thread_prompt"
                     /\ UNCHANGED selected_threads
    /\ UNCHANGED <<exitVars, user_cancel, inputVars, credVars, threads,
                   selected_ids, thread_prompts, warnings, expVars>>

\* What select_threads returns for a checkbox answer that is neither empty
\* nor a quit (lines 128-130).
AnswerSelection(ts, answer) ==
    IF ALL \in answer THEN ts ELSE SelectByIds(ts, SetToSeq(answer))

\* A variant of RejectsAnswer that accepts the empty answer.
AcceptsAnyAnswer(answer) == FALSE

\* The empty answer is rejected (line 124: not selected_ids).
RejectsAnswer(answer) == answer = {}

\* Lines 108-130: one showing of the thread prompt.  The answer is a list of
\* choice values, None (cancel or escape) or a KeyboardInterrupt.
ThreadPrompt ==
    /\ pc = "thread_prompt"
    /\ UNCHANGED pureVars
    /\ thread_prompts' = thread_prompts + 1
    /\ \E answer \in (SUBSET ThreadChoices(threads))
                       \cup {{None}, {<<"KeyboardInterrupt">>}} :
         /\ selected_ids' = IF answer = {<<"KeyboardInterrupt">>}
                            THEN selected_ids ELSE answer
         /\ IF answer = {None}
            THEN /\ SysExit(0, "cancelled")
                 /\ user_cancel' = "cancel"
                 /\ UNCHANGED <<warnings, selected_threads>>
            ELSE IF answer = {<<"KeyboardInterrupt">>}
            THEN /\ SysExit(0, "ctrl_c")
                 /\ user_cancel' = "interrupt"
                 /\ UNCHANGED <<warnings, selected_threads>>
            ELSE IF QUIT \in answer
            THEN /\ SysExit(0, "quit")
                 /\ user_cancel' = "quit"
                 /\ UNCHANGED <<warnings, selected_threads>>
            ELSE IF RejectsAnswer(answer)
            THEN /\ warnings < MaxWarnings
                 /\ warnings' = warnings + 1
                 /\ pc' = "thread_prompt"
                 /\ UNCHANGED <<exitVars, user_cancel, selected_threads>>
            ELSE /\ selected_threads' = AnswerSelection(threads, answer)
                 /\ pc' = "mkdir"
                 /\ UNCHANGED <<exitVars, user_cancel, warnings>>
    /\ UNCHANGED <<inputVars, credVars, threads, select_ids, expVars>>

\* Lines 197-199: the output directory is created if missing.
MakeOutputDir ==
    /\ pc = "mkdir"
    /\ UNCHANGED pureVars
    /\ dir_created' = TRUE
    /\ idx' = 1
    /\ pc' = "export"
    /\ UNCHANGED <<exitVars, user_cancel, inputVars, credVars, selVars, now,
                   net, fetches, saved, files>>

\* Lines 200-211: one iteration of the export loop.
ExportThread ==
    /\ pc = "export"
    /\ UNCHANGED pureVars
    /\ idx <= Len(selected_threads)
    /\ \E timestamp \in now..MaxTime, response \in Responses :
         LET thread == selected_threads[idx]
             filename == FileName(thread, timestamp)
             r == fetch_thread(thread.thread_id, api_key, response,
                               BodyOf(thread.thread_id))
         IN  /\ now' = timestamp
             /\ fetches' = Append(fetches, [idx |-> idx, response |-> response,
                                            error |-> r.error])
             /\ net' = net \o r.gets
             /\ IF r.error # "none"
                THEN /\ Raise(r.error, 1, "fetch_error")
                     /\ UNCHANGED <<idx, saved, files>>
                ELSE /\ files' = WriteFile(files, filename, r.data)
                     /\ saved' = Append(saved, [idx |-> idx,
                                                filename |-> filename])
                     /\ idx' = idx + 1
                     /\ UNCHANGED <<pc, exitVars>>
    /\ UNCHANGED <<user_cancel, inputVars, credVars, selVars, dir_created>>

\* The loop is over and main returns.
FinishExport ==
    /\ pc = "export"
    /\ UNCHANGED pureVars
    /\ idx > Len(selected_threads)
    /\ Exit(0, "return", "exported")
    /\ UNCHANGED <<logged, user_cancel, inputVars, credVars, selVars, expVars>>

\* handle_sigint (lines 133-138): SIGINT at any point of the run prints a
\* message and calls sys.exit(0).
Sigint ==
    /\ pc # "done"
    /\ UNCHANGED pureVars
    /\ SysExit(0, "ctrl_c")
    /\ user_cancel' = "sigint"
    /\ UNCHANGED <<inputVars, credVars, selVars, expVars>>

NotCalled == [error |-> "not called", gets |-> <<>>, data |-> None]
NoResult == <<(<<"not called">>), <<"not called">>>>

InitFetchIdle == f_thread_id = <<>> /\ f_api_key = <<>> /\ f_result = NotCalled
InitResolveIdle ==
    /\ r_config = <<>>
    /\ r_project_id = None
    /\ r_project_name = None
    /\ r_result = NoResult

Init == InitMain /\ InitFetchIdle /\ InitResolveIdle

Next ==
    \/ CheckConfig
    \/ LoadConfig
    \/ ResolveCredential
    \/ ProjectPrompt
    \/ FetchThreadList
    \/ SelectThreads
    \/ ThreadPrompt
    \/ MakeOutputDir
    \/ ExportThread
    \/ FinishExport
    \/ Sigint

Spec == Init /\ [][Next]_vars

---------------------------------------------------------------------------
(* fetch_thread on its own: every pair of short strings, every response. *)

FetchStrings == Strings(Whitespace \cup {"a"}, MaxLen)

IdleMain ==
    /\ config_file = [exists |-> FALSE, valid |-> FALSE, entries |-> <<>>]
    /\ args_api_key = None
    /\ env_api_key = None
    /\ InitRun

InitFetch ==
    /\ f_thread_id \in FetchStrings
    /\ f_api_key \in FetchStrings
    /\ f_result = NotCalled
    /\ IdleMain
    /\ InitResolveIdle

CallFetchThread ==
    /\ f_result = NotCalled
    /\ \E response \in Responses :
         f_result' = fetch_thread(f_thread_id, f_api_key, response,
                                  BodyOf(f_thread_id))
    /\ UNCHANGED <<f_thread_id, f_api_key, mainVars, resolveVars>>

SpecFetch == InitFetch /\ [][CallFetchThread]_vars

---------------------------------------------------------------------------
(* get_project_key_from_config on its own: every config of distinct       *)
(* identifiers, every pair of selectors.                                   *)

Ids == Strings({"a", ":"}, MaxIdLen)
Selectors == Ids \cup {None}

\* An entry's secret key names its identifier, so that the entry a result
\* comes from can be read off the result.
EntryOf(k) == <<k, <<"key of">> \o k>>

RECURSIVE Configs(_)
Configs(n) ==
    IF n = 0 THEN {<<>>}
    ELSE LET shorter == Configs(n - 1)
         IN  shorter \cup
             {Append(c, EntryOf(k)) :
                 c \in {d \in shorter : Len(d) = n - 1},
                 k \in Ids}

HasDistinctKeys(c) ==
    \A i, j \in 1..Len(c) : c[i][1] = c[j][1] => i = j

InitResolve ==
    /\ r_config \in {c \in Configs(MaxEntries) : HasDistinctKeys(c)}
    /\ r_project_id \in Selectors
    /\ r_project_name \in Selectors
    /\ r_result = NoResult
    /\ IdleMain
    /\ InitFetchIdle

CallResolve ==
    /\ r_result = NoResult
    /\ r_result' = get_project_key_from_config(r_config, r_project_id,
                                               r_project_name)
    /\ UNCHANGED <<r_config, r_project_id, r_project_name, mainVars, fetchVars>>

SpecResolve == InitResolve /\ [][CallResolve]_vars

---------------------------------------------------------------------------
(* Properties. *)

Cancelled == user_cancel # "none"
IsPrefix(s, t) == Len(s) <= Len(t) /\ SubSeq(t, 1, Len(s)) = s
ListGets == {i \in 1..Len(net) : net[i].url = ListUrl}
ThreadGets == {i \in 1..Len(net) : net[i].url # ListUrl}
Blank(s) == \A i \in 1..Len(s) : s[i] \in Whitespace

\* The key a credential source yielded.
Yielded(source) ==
    CASE source = "flag" -> args_api_key
      [] source = "env" -> env_api_key
      [] source = "config" -> lookup.result[1]
      [] source = "prompt" ->
            IF project_key = None THEN None ELSE SecretOf(config, project_key)

PrecedenceOrders ==
    {<<"flag", "env", "config">>, <<"flag", "env", "prompt">>}

\* C1: the credential sources are read in the order flag, environment, then
\* config lookup or project prompt, and none is read after one that yielded a
\* non-empty key; at most one list request is made, it is the first request,
\* and it carries the non-null key the last source read yielded; a run that
\* ends without any request ends with status 1, or with status 0 on a
\* cancellation.
C1_CredentialPrecedence ==
    /\ \E order \in PrecedenceOrders : IsPrefix(consulted, order)
    /\ \A i \in 1..(Len(consulted) - 1) : ~Truthy(Yielded(consulted[i]))
    /\ Cardinality(ListGets) <= 1
    /\ net # <<>> => 1 \in ListGets
    /\ \A i \in ListGets :
         /\ consulted # <<>>
         /\ net[i].api_key # None
         /\ Truthy(net[i].api_key)
         /\ net[i].api_key = Yielded(consulted[Len(consulted)])
    /\ (pc = "done" /\ net = <<>>) =>
         \/ exit_status = 1
         \/ exit_status = 0 /\ Cancelled

\* A run in which flag and environment were empty and the config lookup
\* supplied the key of the list request.
C1_Witness ==
    /\ consulted = <<"flag", "env", "config">>
    /\ net # <<>>
    /\ net[1].api_key = <<"L">>

\* C2: every cancellation (the quit choice or a cancel in either prompt, a
\* KeyboardInterrupt from a prompt, SIGINT at any point of main) ends the run
\* at once with status 0, through sys.exit and never through the logged and
\* re-raised path.
C2_CancellationExitsZero ==
    Cancelled =>
        /\ pc = "done"
        /\ exit_status = 0
        /\ exit_via = "sys_exit"
        /\ ~logged

\* SIGINT during the export, after the first thread was saved.
C2_Witness ==
    /\ user_cancel = "sigint"
    /\ Len(saved) = 1
    /\ exit_status = 0

\* C3: fetch_thread raises ValueError and issues no request when thread_id or
\* api_key is empty or all whitespace, and issues exactly one GET to the
\* thread's URL otherwise.
C3_FetchThreadPrecondition ==
    f_result # NotCalled =>
        IF Blank(f_thread_id) \/ Blank(f_api_key)
        THEN /\ f_result.error = "ValueError"
             /\ f_result.gets = <<>>
        ELSE /\ f_result.error # "ValueError"
             /\ Len(f_result.gets) = 1
             /\ f_result.gets[1].url = ThreadUrl(f_thread_id)

\* fetch_thread("a", " ") was called and raised ValueError.
C3_Witness ==
    /\ f_thread_id = <<"a">>
    /\ f_api_key = <<" ">>
    /\ f_result.error = "ValueError"

\* C4: no GET request, list or thread, carries an api key that is empty
\* after stripping.
C4_NoBlankKeyOnTheWire ==
    \A i \in 1..Len(net) : Strip(net[i].api_key) # <<>>

\* The positions of ts whose thread_id is one of ids.
Kept(ts, ids) ==
    {i \in 1..Len(ts) : \E j \in 1..Len(ids) : ids[j] = ts[i].thread_id}

\* The n-th smallest element of a set of positions.
NthOf(S, n) == CHOOSE i \in S : Cardinality({j \in S : j <= i}) = n

\* The elements of ts at the positions kept, in the order of ts.
KeptInOrder(ts, ids) ==
    [n \in 1..Cardinality(Kept(ts, ids)) |-> ts[NthOf(Kept(ts, ids), n)]]

BySelectFlag == select_ids # NoList

ListFailed ==
    /\ net # <<>>
    /\ \/ net[1].response = "http_error"
       \/ net[1].response = "ok" /\ threads = <<>>

\* C6: when the list fetch fails with an HTTP error or returns the empty
\* list, the process exits with status 1 and has written no file, fetched no
\* thread, shown no thread prompt and created no output directory.
C6_ListFailureExitsOne ==
    ListFailed =>
        /\ pc = "done"
        /\ exit_status = 1
        /\ exit_via = "sys_exit"
        /\ files = {}
        /\ saved = <<>>
        /\ fetches = <<>>
        /\ ThreadGets = {}
        /\ thread_prompts = 0
        /\ ~dir_created

\* The server answered the list request with the empty list.
C6_Witness ==
    /\ net # <<>>
    /\ net[1].response = "ok"
    /\ threads = <<>>
    /\ exit_status = 1

\* The n-th call of fetch_thread failed.
FetchFailed(n) == fetches[n].response # "ok" \/ fetches[n].error # "none"

\* C7: the selected threads are fetched in list order, once each; when the
\* k-th fetch fails, the files of threads 1..k-1 are there, nothing is
\* written for thread k, nothing is fetched after it, and the process ends
\* with a non-zero status through the logged and re-raised path.
C7_ExportAbortsOnFailure ==
    /\ Len(fetches) <= Len(selected_threads)
    /\ \A n \in 1..Len(fetches) : fetches[n].idx = n
    /\ Cardinality(ThreadGets) <= Len(fetches)
    /\ \A n \in 1..Len(saved) :
         /\ saved[n].idx = n
         /\ n <= Len(fetches)
         /\ ~FetchFailed(n)
         /\ saved[n].filename \in FileNames(files)
    /\ \A k \in 1..Len(fetches) :
         FetchFailed(k) =>
            /\ k = Len(fetches)
            /\ Len(saved) = k - 1
            /\ pc = "done"
            /\ exit_via = "raise"
            /\ logged
            /\ exit_status # 0

\* The second of two selected threads failed with an HTTP error after the
\* first was saved.
C7_Witness ==
    /\ Len(fetches) = 2
    /\ fetches[2].response = "http_error"
    /\ Len(saved) = 1
    /\ files # {}
    /\ pc = "done"

\* select_threads returned an interactive selection.
InteractiveSelection ==
    thread_prompts > 0 /\ (pc \in {"mkdir", "export"} \/ dir_created)

\* C8: the empty checkbox answer never returns a selection: it prints a
\* warning and the prompt is shown again (only an interrupt ends the run
\* with the empty answer still the last one); a selection the interactive flow
\* returns holds at least one thread, and is the fetched list itself when
\* ALL was checked.
C8_InteractiveSelection ==
    /\ selected_ids = {} =>
         /\ warnings >= 1
         /\ pc = "thread_prompt" \/ user_cancel \in {"sigint", "interrupt"}
    /\ pc = "thread_prompt" => thread_prompts = warnings
    /\ InteractiveSelection =>
         /\ thread_prompts = warnings + 1
         /\ selected_ids # {}
         /\ selected_threads # <<>>
         /\ ALL \in selected_ids => selected_threads = threads

\* An empty answer, a warning, then ALL.
C8_Witness ==
    /\ warnings = 1
    /\ ALL \in selected_ids
    /\ pc = "mkdir"
    /\ Len(selected_threads) = 2

\* The rule of the lookup as stated: the id equals the identifier, or the
\* name cut at its first colon equals the identifier cut at its first colon.
StatedMatch(k, project_id, project_name) ==
    \/ project_id # None /\ project_id = k
    \/ project_name # None /\ SplitFirst(project_name, ":") = SplitFirst(k, ":")

StatedLookup(projects, project_id, project_name) ==
    LET hits == {i \in 1..Len(projects) :
                    StatedMatch(projects[i][1], project_id, project_name)}
    IN  IF hits = {} THEN <<None, None>>
        ELSE LET first == CHOOSE i \in hits : \A j \in hits : i <= j
             IN  <<projects[first][2], projects[first][1]>>

\* C9: get_project_key_from_config returns the secret key and identifier of
\* the first entry whose identifier equals project_id or whose identifier,
\* cut at its first colon, equals project_name cut at its first colon, and
\* (None, None) when there is none.
C9_LookupAsStated ==
    r_result # NoResult =>
        r_result = StatedLookup(r_config, r_project_id, r_project_name)

\* C10: when the config file does not exist, nothing but the existence check
\* happens: no credential source is read, no prompt is shown, no request is
\* made, no file is written, and the process exits with status 1 (unless
\* SIGINT ended it before the check), whatever --api-key and API_KEY hold.
C10_ConfigCheckFirst ==
    ~config_file.exists =>
        /\ pc \in {"start", "done"}
        /\ consulted = <<>>
        /\ api_key = None
        /\ config = <<>>
        /\ project_prompts = 0
        /\ thread_prompts = 0
        /\ net = <<>>
        /\ files = {}
        /\ ~dir_created
        /\ pc = "done" =>
             \/ /\ exit_status = 1
                /\ exit_via = "sys_exit"
                /\ exit_msg = "config_not_found"
             \/ user_cancel = "sigint"

\* The config file is missing, --api-key holds a usable key, and the run
\* ended with status 1.
C10_Witness ==
    /\ ~config_file.exists
    /\ args_api_key = <<"k">>
    /\ pc = "done"
    /\ exit_status = 1

====
